---------------------------- MODULE Spec2Model ----------------------------
(***************************************************************************)
(* Grid pathfinding kernel of the ai-games repository: the BFS pathfinder  *)
(* of wumpus3.py, the A* pathfinder, teleport pairing, level generator,    *)
(* replay driver, challenge mode and map editor of wumpus4.py              *)
(* (wumpusheavy.py shares the generator).                                  *)
(***************************************************************************)
EXTENDS Integers, Sequences, FiniteSets, TLC

(* Side of the square board.  The programs set GRID_SIZE = 10; the model   *)
(* explores a smaller board.                                               *)
GRID_SIZE == 5

(* Number of cells besides agent and gold that carry a non-empty tile in   *)
(* the boards the pathfinders are run on.                                  *)
MaxTiles == 2

(* Number of Teleport cells in the boards that carry Teleport tiles only.  *)
MaxTeleportTiles == 3

(* Number of items (wumpuses, pits, obstacles, traps, teleports together) a  *)
(* level generated in the model requests.                                  *)
MaxItems == 3

(* Number of items a level played in the model requests.                   *)
MaxGameItems == 2

(* Number of tiles placed in the map editor.                               *)
MaxClicks == 5

(* Number of challenge-mode changes applied during one game.               *)
MaxChallenges == 1

(* Number of items the challenge level of the model requests.              *)
MaxChallengeItems == 1

(* Number of cells the obstacles of a nearly full level leave empty.        *)
MaxFree == 2
\* The snake board is SnakeCells cells wide and high.
SnakeCells == 3

\* Entities (wumpus4.py:46-54, wumpus3.py:23-27)
AGENT == "A"
WUMPUS == "W"
GOLD == "G"
PIT == "P"
EMPTY == "_"
TRAIL == "T"
OBSTACLE == "O"
TRAP == "X"
TELEPORT == "TP"

\* Python's None, as an entity type and as a position
None == "None"
NoPos == <<-1, -1>>

Kinds == {AGENT, WUMPUS, GOLD, PIT, EMPTY, TRAIL, OBSTACLE, TRAP, TELEPORT}

Cells == (0..(GRID_SIZE - 1)) \X (0..(GRID_SIZE - 1))

Abs(x) == IF x < 0 THEN -x ELSE x

\* The bounds test both pathfinders apply to a candidate neighbour.
InGrid(p) == 0 <= p[1] /\ p[1] < GRID_SIZE /\ 0 <= p[2] /\ p[2] < GRID_SIZE

(***************************************************************************)
(* wumpus3.py bfs_search                                                   *)
(***************************************************************************)
\* for dx, dy in [(-1, 0), (1, 0), (0, -1), (0, 1)]
BfsDirs == << <<-1, 0>>, <<1, 0>>, <<0, -1>>, <<0, 1>> >>

\* Variant of BfsBlocked: the test on PIT is left out.
BfsBlockedWumpusOnly == {WUMPUS}

\* grid[nx][ny] != PIT and grid[nx][ny] != WUMPUS
BfsBlocked == {PIT, WUMPUS}

\* The queue entries appended for the cell (x, y) popped with path p.
BfsExpand(g, pos, p) ==
    LET cand == [i \in 1..4 |-> <<pos[1] + BfsDirs[i][1], pos[2] + BfsDirs[i][2]>>]
        ok == SelectSeq(cand, LAMBDA n : InGrid(n) /\ g[n] \notin BfsBlocked)
    IN  [i \in 1..Len(ok) |-> <<ok[i], Append(p, pos)>>]

RECURSIVE BfsLoop(_, _, _, _)
BfsLoop(g, goal, queue, visited) ==
    IF queue = <<>> THEN <<>>
    ELSE LET pos == Head(queue)[1]
             p == Head(queue)[2]
         IN  IF pos = goal THEN Append(p, pos)
             ELSE IF pos \in visited THEN BfsLoop(g, goal, Tail(queue), visited)
             ELSE BfsLoop(g, goal, Tail(queue) \o BfsExpand(g, pos, p),
                          visited \cup {pos})

\* Variant of bfs_search: the returned path leaves out the start cell.
bfs_search_moves(g, start, goal) ==
    LET p == BfsLoop(g, goal, << <<start, <<>> >> >>, {})
    IN  IF p = <<>> THEN <<>> ELSE Tail(p)

bfs_search(g, start, goal) == BfsLoop(g, goal, << <<start, <<>> >> >>, {})

(***************************************************************************)
(* wumpus4.py GameManager.calculate_path, A-star                           *)
(***************************************************************************)
heuristic(a, b) == Abs(a[1] - b[1]) + Abs(a[2] - b[2])

\* for dr, dc in [(0, 1), (1, 0), (0, -1), (-1, 0)]
AStarDirs == << <<0, 1>>, <<1, 0>>, <<0, -1>>, <<-1, 0>> >>

\* Variant of AStarBlocked: WUMPUS is left out of the list.
AStarBlockedObstacleOnly == {OBSTACLE}

\* if self.grid[r][c] not in [OBSTACLE, WUMPUS]
AStarBlocked == {OBSTACLE, WUMPUS}

get_neighbors(g, pos) ==
    LET cand == [i \in 1..4 |-> <<pos[1] + AStarDirs[i][1], pos[2] + AStarDirs[i][2]>>]
    IN  SelectSeq(cand, LAMBDA n : InGrid(n) /\ g[n] \notin AStarBlocked)

\* Variant of TeleportPenalty: a Teleport cell costs no more than another.
TeleportPenaltyNone(g, neighbor) == 0

\* teleport_penalty of stepping onto neighbor
TeleportPenalty(g, neighbor) == IF g[neighbor] = TELEPORT THEN 1 ELSE 0

\* Variant of MinIndex: the newest entry is taken, whatever its f.
MinIndexNewest(open_set) == Len(open_set)

\* min(open_set, key=lambda x: x[0]): the first entry with the least stored f
MinIndex(open_set) ==
    CHOOSE i \in 1..Len(open_set) :
        /\ \A j \in 1..Len(open_set) : open_set[i][1] <= open_set[j][1]
        /\ \A j \in 1..(i - 1) : open_set[j][1] > open_set[i][1]

InOpen(open_set, pos) == \E i \in 1..Len(open_set) : open_set[i][2] = pos

\* The body of "for neighbor in get_neighbors(current)" for one neighbor.
RelaxOne(g, gold, current, neighbor, st) ==
    LET tentative_g == st.g_score[current] + 1 + TeleportPenalty(g, neighbor)
    IN  IF neighbor \notin DOMAIN st.g_score \/ tentative_g < st.g_score[neighbor]
        THEN LET f == tentative_g + heuristic(neighbor, gold)
             IN  [came_from |-> (neighbor :> current) @@ st.came_from,
                  g_score |-> (neighbor :> tentative_g) @@ st.g_score,
                  f_score |-> (neighbor :> f) @@ st.f_score,
                  open_set |-> IF InOpen(st.open_set, neighbor)
                               THEN st.open_set
                               ELSE Append(st.open_set, <<f, neighbor>>)]
        ELSE st

RECURSIVE Relax(_, _, _, _, _)
Relax(g, gold, current, nbrs, st) ==
    IF nbrs = <<>> THEN st
    ELSE Relax(g, gold, current, Tail(nbrs), RelaxOne(g, gold, current, Head(nbrs), st))

\* Variant of Reconstruct: the cells are kept in the order they are walked
\* back from the gold (path.reverse() is left out).
RECURSIVE ReconstructUnreversed(_, _, _)
ReconstructUnreversed(came_from, current, acc) ==
    IF current \in DOMAIN came_from
    THEN ReconstructUnreversed(came_from, came_from[current], Append(acc, current))
    ELSE acc

\* while current in came_from: path.append(current); current = came_from[current]
RECURSIVE Reconstruct(_, _, _)
Reconstruct(came_from, current, acc) ==
    IF current \in DOMAIN came_from
    THEN Reconstruct(came_from, came_from[current], <<current>> \o acc)
    ELSE acc

\* The search state before the first iteration of the main loop.
AStarInit(start, gold) ==
    [open_set |-> << <<0, start>> >>,
     came_from |-> <<>>,
     g_score |-> (start :> 0),
     f_score |-> (start :> heuristic(start, gold))]

RECURSIVE AStarLoop(_, _, _, _)
AStarLoop(g, start, gold, st) ==
    IF st.open_set = <<>> THEN <<>>
    ELSE LET current == st.open_set[MinIndex(st.open_set)][2]
             rest == SelectSeq(st.open_set, LAMBDA x : x[2] # current)
         IN  IF current = gold
             THEN <<start>> \o Reconstruct(st.came_from, current, <<>>)
             ELSE AStarLoop(g, start, gold,
                            Relax(g, gold, current, get_neighbors(g, current),
                                  [st EXCEPT !.open_set = rest]))

\* Variant of calculate_path: when the open set runs empty the cells walked
\* so far (the agent's cell) are returned instead of [].
calculate_path_partial(g, start, gold) ==
    LET p == AStarLoop(g, start, gold, AStarInit(start, gold))
    IN  IF p = <<>> THEN <<start>> ELSE p

calculate_path(g, start, gold) == AStarLoop(g, start, gold, AStarInit(start, gold))

(***************************************************************************)
(* wumpus4.py / wumpusheavy.py Level.find_empty_position                    *)
(***************************************************************************)
\* The cells of a list of positions.
Range(s) == {s[i] : i \in 1..Len(s)}

\* Variant of RandomHits: the sample is tested for its distance to the agent
\* start only.
RandomHitsFarOnly(g, exclude_positions, agent) ==
    {c \in Cells : Abs(c[1] - agent[1]) > 1 \/ Abs(c[2] - agent[2]) > 1}

\* The samples (row, col) one of the 100 attempts returns: an EMPTY cell, not
\* excluded, and not adjacent to the agent start.
RandomHits(g, exclude_positions, agent) ==
    {c \in Cells : /\ g[c] = EMPTY
                   /\ c \notin exclude_positions
                   /\ (Abs(c[1] - agent[1]) > 1 \/ Abs(c[2] - agent[2]) > 1)}

\* for row in range(size): for col in range(size): the order of the scan
RowMajorBefore(a, b) == a[1] < b[1] \/ (a[1] = b[1] /\ a[2] < b[2])

\* Variant of FirstEmpty: the scan skips the cells next to the agent start, as
\* the sampling loop does.
FirstEmptyOutsideZone(g, exclude_positions) ==
    LET S == {c \in Cells : /\ g[c] = EMPTY /\ c \notin exclude_positions
                            /\ (c[1] > 1 \/ c[2] > 1)}
    IN  IF S = {} THEN NoPos
        ELSE CHOOSE c \in S : \A d \in S : c = d \/ RowMajorBefore(c, d)

\* The result of the scan that follows 100 failed attempts.
FirstEmpty(g, exclude_positions) ==
    LET S == {c \in Cells : g[c] = EMPTY /\ c \notin exclude_positions}
    IN  IF S = {} THEN NoPos
        ELSE CHOOSE c \in S : \A d \in S : c = d \/ RowMajorBefore(c, d)

\* Every value find_empty_position can return, over all sequences of random
\* samples: an accepted sample, or, when all 100 samples were rejected (any
\* rejected cell sampled 100 times), the result of the scan.
find_empty_position(g, exclude_positions, agent) ==
    RandomHits(g, exclude_positions, agent)
        \cup (IF Cells \ RandomHits(g, exclude_positions, agent) # {}
              THEN {FirstEmpty(g, exclude_positions)} ELSE {})

(***************************************************************************)
(* wumpus4.py GameManager.initialize_teleports                             *)
(***************************************************************************)
\* teleport_positions as the scan finds them, in row-major order
RECURSIVE ScanOrder(_)
ScanOrder(S) ==
    IF S = {} THEN <<>>
    ELSE LET c == CHOOSE x \in S : \A d \in S : x = d \/ RowMajorBefore(x, d)
         IN  <<c>> \o ScanOrder(S \ {c})

\* Every order random.shuffle can leave a list in.
Shuffles(s) ==
    {[i \in 1..Len(s) |-> s[p[i]]] :
        p \in {q \in [1..Len(s) -> 1..Len(s)] : \A i, j \in 1..Len(s) : q[i] = q[j] => i = j}}

\* Variant of PairUp: the loop steps by 1, range(0, len(teleport_positions)).
RECURSIVE PairUpEveryIndex(_, _, _)
PairUpEveryIndex(s, i, td) ==
    IF i > Len(s) THEN td
    ELSE IF i + 1 <= Len(s)
         THEN PairUpEveryIndex(s, i + 1, (s[i + 1] :> s[i]) @@ (s[i] :> s[i + 1]) @@ td)
         ELSE PairUpEveryIndex(s, i + 1, td)

\* for i in range(0, len(teleport_positions), 2): link s[i] and s[i+1] both ways
\* (i counts from 1 here)
RECURSIVE PairUp(_, _, _)
PairUp(s, i, td) ==
    IF i > Len(s) THEN td
    ELSE IF i + 1 <= Len(s)
         THEN PairUp(s, i + 2, (s[i + 1] :> s[i]) @@ (s[i] :> s[i + 1]) @@ td)
         ELSE PairUp(s, i + 2, td)

\* Every teleport map initialize_teleports can build on board g.
initialize_teleports(g) ==
    {PairUp(s, 1, <<>>) : s \in Shuffles(ScanOrder({c \in Cells : g[c] = TELEPORT}))}

(***************************************************************************)
(* State.  grid, agent_pos, gold_pos, path, teleport_destinations,         *)
(* wumpus_positions, animations, animation, game_over and game_won are the *)
(* GameManager fields of wumpus4.py; bfs_path is the variable path of      *)
(* wumpus3.py main(); settings and the *_positions lists are the state of  *)
(* Level.generate_grid, remaining the iterations its running for-loop has  *)
(* left; map_editor_selected_tile and challenge_mode are GameManager       *)
(* fields, clicks and challenges count the map editor's tile placements    *)
(* and the challenge updates; pc is the position of the running handler.   *)
(***************************************************************************)
VARIABLES grid, agent_pos, gold_pos, path, bfs_path, teleport_destinations,
          wumpus_positions, pit_positions, obstacle_positions, trap_positions,
          teleport_positions, settings, remaining, animations, animation,
          game_over, game_won, map_editor_selected_tile, clicks,
          challenge_mode, challenges, levels_completed, history,
          snake, food, direction, running, food_start, snake_path, pc

boardVars == <<grid, agent_pos, gold_pos>>
genVars == <<wumpus_positions, pit_positions, obstacle_positions, trap_positions,
             teleport_positions, settings, remaining>>
replayVars == <<animations, animation, game_over, game_won>>
modeVars == <<map_editor_selected_tile, clicks, challenge_mode, challenges>>
statsVars == <<levels_completed, history>>
snakeVars == <<snake, food, direction, running, food_start, snake_path>>
vars == <<grid, agent_pos, gold_pos, path, bfs_path, teleport_destinations,
          wumpus_positions, pit_positions, obstacle_positions, trap_positions,
          teleport_positions, settings, remaining, animations, animation,
          game_over, game_won, map_editor_selected_tile, clicks,
          challenge_mode, challenges, levels_completed, history,
          snake, food, direction, running, food_start, snake_path, pc>>

\* The settings of a level that places nothing.
NoSettings == [wumpus |-> 0, pits |-> 0, obstacles |-> 0, traps |-> 0, teleports |-> 0]

\* The generator and replay fields as GameManager.__init__ leaves them.
IdleGen ==
    /\ wumpus_positions = <<>> /\ pit_positions = <<>> /\ obstacle_positions = <<>>
    /\ trap_positions = <<>> /\ teleport_positions = <<>> /\ settings = NoSettings
    /\ remaining = 0
\* self.animation = None
NoAnimation == [start_pos |-> NoPos, end_pos |-> NoPos, entity_type |-> None]

IdleReplay ==
    /\ animations = <<>> /\ animation = NoAnimation
    /\ game_over = FALSE /\ game_won = FALSE

\* The map editor's selected tile and the challenge mode as
\* GameManager.__init__ leaves them; clicks and challenges count the tile
\* placements and the challenge updates made so far.
IdleMode ==
    /\ map_editor_selected_tile = EMPTY /\ clicks = 0
    /\ challenge_mode = FALSE /\ challenges = 0

\* stats_data as load_stats creates it: "levels_completed": {}, "history": [];
\* levels_completed is the entry of the level that is played.
IdleStats == levels_completed = 0 /\ history = <<>>

\* The fields of the snake game while no snake game exists.
IdleSnake ==
    /\ snake = <<>> /\ food = NoPos /\ food_start = NoPos
    /\ direction = "RIGHT" /\ running = FALSE /\ snake_path = <<>>

(***************************************************************************)
(* Boards the pathfinders are run on: agent and gold placed, at most       *)
(* MaxTiles other cells carrying a tile of any kind, or at most            *)
(* MaxTeleportTiles cells carrying a Teleport.                             *)
(***************************************************************************)
TileKinds == {WUMPUS, PIT, OBSTACLE, TRAP, TELEPORT, TRAIL}

\* grid[agent] = AGENT, then grid[gold] = GOLD (wumpus3.py:133-134, wumpus4.py:861-862)
BaseBoard(a, g) ==
    [c \in Cells |-> IF c = g THEN GOLD ELSE IF c = a THEN AGENT ELSE EMPTY]

RECURSIVE Boards(_, _, _, _)
Boards(a, g, kinds, k) ==
    IF k = 0 THEN {BaseBoard(a, g)}
    ELSE LET B == Boards(a, g, kinds, k - 1)
         IN  B \cup {[b EXCEPT ![c] = t] : b \in B, c \in Cells \ {a, g}, t \in kinds}

Centre == <<GRID_SIZE \div 2, GRID_SIZE \div 2>>
StartCells == {<<0, 0>>, Centre}
GoalCells == {<<0, GRID_SIZE - 1>>, <<GRID_SIZE - 1, GRID_SIZE - 1>>, Centre}

PathInit ==
    /\ agent_pos \in StartCells
    /\ gold_pos \in GoalCells
    /\ grid \in Boards(agent_pos, gold_pos, TileKinds, MaxTiles)
                \cup Boards(agent_pos, gold_pos, {TELEPORT}, MaxTeleportTiles)
    /\ path = <<>> /\ bfs_path = <<>>
    /\ teleport_destinations = <<>>
    /\ IdleGen /\ IdleReplay /\ IdleMode /\ IdleStats /\ IdleSnake
    /\ pc = "board"

\* "Test Path" of the map editor / initialize_game: self.path = calculate_path()
TestPath ==
    /\ pc = "board"
    /\ path' = calculate_path(grid, agent_pos, gold_pos)
    /\ pc' = "astar"
    /\ UNCHANGED <<statsVars, snakeVars, modeVars, boardVars, bfs_path, teleport_destinations, genVars, replayVars>>

\* wumpus3.py main(): path = bfs_search(grid, agent_pos, gold_pos)
RunBfs ==
    /\ pc = "astar"
    /\ bfs_path' = bfs_search(grid, agent_pos, gold_pos)
    /\ pc' = "both"
    /\ UNCHANGED <<statsVars, snakeVars, modeVars, boardVars, path, teleport_destinations, genVars, replayVars>>

PathNext == TestPath \/ RunBfs

PathSpec == PathInit /\ [][PathNext]_vars

(***************************************************************************)
(* A level is started: initialize_game runs Level.generate_grid (one       *)
(* action per iteration of its five placement loops), then                 *)
(* initialize_teleports, then calculate_path.                              *)
(***************************************************************************)
\* Level.__init__: self.agent_pos = (0, 0); self.gold_pos = (size-1, size-1)
LevelAgent == <<0, 0>>
LevelGold == <<GRID_SIZE - 1, GRID_SIZE - 1>>

\* self.grid = None
NoGrid == [c \in Cells |-> None]

\* The level settings explored: at most MaxItems items requested in all.
Profiles ==
    {s \in [wumpus : 0..MaxItems, pits : 0..MaxItems, obstacles : 0..MaxItems,
            traps : 0..MaxItems, teleports : 0..MaxItems] :
        s.wumpus + s.pits + s.obstacles + s.traps + s.teleports <= MaxItems}

\* GameManager.__init__
MenuInit ==
    /\ grid = NoGrid /\ agent_pos = NoPos /\ gold_pos = NoPos
    /\ path = <<>> /\ bfs_path = <<>>
    /\ teleport_destinations = <<>>
    /\ IdleGen /\ IdleReplay /\ IdleMode /\ IdleStats /\ IdleSnake
    /\ pc = "menu"

\* A level button is clicked: initialize_game resets the game variables and
\* generate_grid places agent and gold on an empty grid.
StartGame(profiles, challenge) ==
    /\ pc = "menu"
    /\ settings' \in profiles
    /\ grid' = BaseBoard(LevelAgent, LevelGold)
    /\ wumpus_positions' = <<>> /\ pit_positions' = <<>> /\ obstacle_positions' = <<>>
    /\ trap_positions' = <<>> /\ teleport_positions' = <<>>
    /\ remaining' = settings'.wumpus
    /\ path' = <<>>
    /\ animations' = <<>> /\ animation' = NoAnimation
    /\ game_over' = FALSE /\ game_won' = FALSE
    /\ challenge_mode' = challenge
    /\ pc' = "wumpus"
    /\ UNCHANGED <<statsVars, snakeVars, map_editor_selected_tile, clicks, challenges, agent_pos, gold_pos,
                   bfs_path, teleport_destinations>>

\* self.current_level.name is not "Challenge Mode"
StartLevel(profiles) == StartGame(profiles, FALSE)

\* self.current_level.name == "Challenge Mode"
StartChallenge(profiles) == StartGame(profiles, TRUE)

\* [self.agent_pos, self.gold_pos] + wumpus_positions + ... + teleport_positions:
\* a list not yet created is empty, so every loop excludes the same cells.
ExcludePositions ==
    {LevelAgent, LevelGold} \cup Range(wumpus_positions) \cup Range(pit_positions)
        \cup Range(obstacle_positions) \cup Range(trap_positions)
        \cup Range(teleport_positions)

\* One iteration of a placement loop: pos = find_empty_position(...);
\* if pos: list.append(pos); grid[pos] = kind.  Gives the new list.
PlaceOne(stage, kind, list, list2) ==
    /\ pc = stage
    /\ remaining > 0
    /\ remaining' = remaining - 1
    /\ \E pos \in find_empty_position(grid, ExcludePositions, LevelAgent) :
          IF pos # NoPos
          THEN /\ list2 = Append(list, pos)
               /\ grid' = [grid EXCEPT ![pos] = kind]
          ELSE /\ list2 = list
               /\ grid' = grid
    /\ UNCHANGED <<statsVars, snakeVars, modeVars, agent_pos, gold_pos, path, bfs_path, teleport_destinations,
                   settings, replayVars, pc>>

PlaceWumpus ==
    /\ PlaceOne("wumpus", WUMPUS, wumpus_positions, wumpus_positions')
    /\ UNCHANGED <<pit_positions, obstacle_positions, trap_positions, teleport_positions>>

PlacePit ==
    /\ PlaceOne("pits", PIT, pit_positions, pit_positions')
    /\ UNCHANGED <<wumpus_positions, obstacle_positions, trap_positions, teleport_positions>>

PlaceObstacle ==
    /\ PlaceOne("obstacles", OBSTACLE, obstacle_positions, obstacle_positions')
    /\ UNCHANGED <<wumpus_positions, pit_positions, trap_positions, teleport_positions>>

PlaceTrap ==
    /\ PlaceOne("traps", TRAP, trap_positions, trap_positions')
    /\ UNCHANGED <<wumpus_positions, pit_positions, obstacle_positions, teleport_positions>>

PlaceTeleport ==
    /\ PlaceOne("teleports", TELEPORT, teleport_positions, teleport_positions')
    /\ UNCHANGED <<wumpus_positions, pit_positions, obstacle_positions, trap_positions>>

\* The loop that follows the loop of a stage, and the setting it counts to.
NextStage(stage) ==
    CASE stage = "wumpus" -> "pits"
      [] stage = "pits" -> "obstacles"
      [] stage = "obstacles" -> "traps"
      [] stage = "traps" -> "teleports"

\* A placement loop has run out: the next one begins.
NextLoop ==
    /\ pc \in {"wumpus", "pits", "obstacles", "traps"}
    /\ remaining = 0
    /\ pc' = NextStage(pc)
    /\ remaining' = settings[pc']
    /\ UNCHANGED <<statsVars, snakeVars, modeVars, boardVars, path, bfs_path, teleport_destinations, wumpus_positions,
                   pit_positions, obstacle_positions, trap_positions,
                   teleport_positions, settings, replayVars>>

\* return grid, self.agent_pos, self.gold_pos, wumpus_positions: the caller
\* keeps these four, the other lists are locals of generate_grid.
GenerateReturn ==
    /\ pc = "teleports"
    /\ remaining = 0
    /\ agent_pos' = LevelAgent
    /\ gold_pos' = LevelGold
    /\ pit_positions' = <<>> /\ obstacle_positions' = <<>>
    /\ trap_positions' = <<>> /\ teleport_positions' = <<>>
    /\ pc' = "generated"
    /\ UNCHANGED <<statsVars, snakeVars, modeVars, grid, path, bfs_path, teleport_destinations, wumpus_positions,
                   settings, remaining, replayVars>>

\* self.initialize_teleports()
InitializeTeleports ==
    /\ pc = "generated"
    /\ teleport_destinations' \in initialize_teleports(grid)
    /\ pc' = "paired"
    /\ UNCHANGED <<statsVars, snakeVars, modeVars, boardVars, path, bfs_path, genVars, replayVars>>

GenNext ==
    \/ StartLevel(Profiles)
    \/ PlaceWumpus \/ PlacePit \/ PlaceObstacle \/ PlaceTrap \/ PlaceTeleport
    \/ NextLoop
    \/ GenerateReturn
    \/ InitializeTeleports

GenSpec == MenuInit /\ [][GenNext]_vars

(***************************************************************************)
(* generate_grid on a grid that is nearly full: the state after the        *)
(* obstacle loop of a level whose obstacles have left at most MaxFree      *)
(* cells empty; the trap and teleport loops follow.                        *)
(***************************************************************************)
FreeCells == Cells \ {LevelAgent, LevelGold}

RECURSIVE SetsUpTo(_)
SetsUpTo(k) ==
    IF k = 0 THEN {{}}
    ELSE LET P == SetsUpTo(k - 1)
         IN  P \cup {S \cup {c} : S \in P, c \in FreeCells}

\* The grid with obstacles everywhere but on the cells of F.
FilledBut(F) ==
    [c \in Cells |-> IF c = LevelGold THEN GOLD
                     ELSE IF c = LevelAgent THEN AGENT
                     ELSE IF c \in F THEN EMPTY ELSE OBSTACLE]

FillInit ==
    /\ grid \in {FilledBut(F) : F \in SetsUpTo(MaxFree)}
    /\ settings \in {[wumpus |-> 0, pits |-> 0,
                      obstacles |-> Cardinality({c \in Cells : grid[c] = OBSTACLE}),
                      traps |-> s.traps, teleports |-> s.teleports] : s \in Profiles}
    /\ wumpus_positions = <<>> /\ pit_positions = <<>>
    /\ obstacle_positions = ScanOrder({c \in Cells : grid[c] = OBSTACLE})
    /\ trap_positions = <<>> /\ teleport_positions = <<>>
    /\ remaining = settings.traps
    /\ agent_pos = NoPos /\ gold_pos = NoPos
    /\ path = <<>> /\ bfs_path = <<>>
    /\ teleport_destinations = <<>>
    /\ IdleReplay /\ IdleMode /\ IdleStats /\ IdleSnake
    /\ pc = "traps"

FillNext ==
    \/ PlaceTrap \/ PlaceTeleport
    \/ NextLoop
    \/ GenerateReturn
    \/ InitializeTeleports

FillSpec == FillInit /\ [][FillNext]_vars

(***************************************************************************)
(* wumpus4.py GameManager.update: one frame of a running, unpaused game.   *)
(* Whether the current animation has run for its duration when the frame   *)
(* looks at it depends on the clock: both outcomes are possible.           *)
(***************************************************************************)
\* Animation(start_pos, end_pos, duration, entity_type)
Anim(s, e, t) == [start_pos |-> s, end_pos |-> e, entity_type |-> t]

\* if not self.animation: self.animation = self.animations.pop(0)
CurrentAnimation == IF animation = NoAnimation THEN Head(animations) ELSE animation
QueueAfterPop == IF animation = NoAnimation THEN Tail(animations) ELSE animations

\* self.animation.update() returned False: the animation goes on.
AnimationRuns ==
    /\ pc = "running"
    /\ animations # <<>>
    /\ animation' = CurrentAnimation
    /\ animations' = QueueAfterPop
    /\ UNCHANGED <<statsVars, snakeVars, modeVars, boardVars, path, bfs_path, teleport_destinations, genVars,
                   game_over, game_won, pc>>

\* The animations a completed agent move to new_pos inserts at the head of
\* the queue, by what it finds on the cell.
Inserted(entity_at_pos, new_pos) ==
    IF entity_at_pos = GOLD THEN <<Anim(new_pos, new_pos, GOLD)>>
    ELSE IF entity_at_pos = TRAP THEN <<Anim(new_pos, new_pos, TRAP)>>
    ELSE IF entity_at_pos = TELEPORT /\ new_pos \in DOMAIN teleport_destinations
    THEN <<Anim(new_pos, new_pos, TELEPORT),
           Anim(new_pos, teleport_destinations[new_pos], AGENT)>>
    ELSE <<>>

\* Variant of Lethal: only the Wumpus kills.
LethalWumpusOnly == {WUMPUS}

\* elif entity_at_pos == WUMPUS or entity_at_pos == PIT: self.game_over = True
Lethal == {WUMPUS, PIT}

\* "Check for end of game", run after every completed animation:
\* if self.game_won and self.current_level:
\*     stats_data["levels_completed"][level_key] += 1
LevelsCompletedAfter(won) ==
    IF won THEN levels_completed + 1 ELSE levels_completed

\* stats_data["history"].append({..., "result": "won" if self.game_won else "lost"})
HistoryAfter(won) ==
    IF won THEN Append(history, "won") ELSE history

\* self.animation.update() returned True: an agent animation moves the agent
\* to its end_pos and acts on what the cell holds; any other animation ends.
AnimationCompletes ==
    /\ pc = "running"
    /\ animations # <<>>
    /\ animation' = NoAnimation
    /\ IF CurrentAnimation.entity_type = AGENT
       THEN LET new_pos == CurrentAnimation.end_pos
                trailed == [grid EXCEPT ![agent_pos] = TRAIL]
                entity_at_pos == trailed[new_pos]
            IN  /\ agent_pos' = new_pos
                /\ grid' = [trailed EXCEPT ![new_pos] = AGENT]
                /\ animations' = Inserted(entity_at_pos, new_pos) \o QueueAfterPop
                /\ game_won' = (game_won \/ entity_at_pos = GOLD)
                /\ game_over' = (game_over \/ entity_at_pos \in Lethal)
       ELSE /\ animations' = QueueAfterPop
            /\ UNCHANGED <<agent_pos, grid, game_over, game_won>>
    /\ levels_completed' = LevelsCompletedAfter(game_won')
    /\ history' = HistoryAfter(game_won')
    /\ UNCHANGED <<snakeVars, modeVars, gold_pos, path, bfs_path, teleport_destinations,
                   genVars, pc>>

\* Variant of StartMove: two elements of the path are consumed for one move.
StartMoveSkipping ==
    /\ pc = "running"
    /\ animations = <<>>
    /\ path # <<>> /\ ~game_over /\ ~game_won
    /\ Len(path) > 2
    /\ path' = Tail(Tail(path))
    /\ animations' = Append(animations, Anim(path[1], path[3], AGENT))
    /\ UNCHANGED <<statsVars, snakeVars, modeVars, boardVars, bfs_path, teleport_destinations, genVars, animation,
                   game_over, game_won, pc>>

\* No animation is queued: the next element of the path is consumed and the
\* move to the element after it is queued.
StartMove ==
    /\ pc = "running"
    /\ animations = <<>>
    /\ path # <<>> /\ ~game_over /\ ~game_won
    /\ Len(path) > 1
    /\ path' = Tail(path)
    /\ animations' = Append(animations, Anim(path[1], path[2], AGENT))
    /\ UNCHANGED <<statsVars, snakeVars, modeVars, boardVars, bfs_path, teleport_destinations, genVars, animation,
                   game_over, game_won, pc>>

\* self.calculate_path(), the last call of initialize_game
CalculatePath ==
    /\ pc = "paired"
    /\ path' = calculate_path(grid, agent_pos, gold_pos)
    /\ pc' = "running"
    /\ UNCHANGED <<statsVars, snakeVars, modeVars, boardVars, bfs_path, teleport_destinations, genVars, replayVars>>

\* The level settings played in the model: at most MaxGameItems items.
GameProfiles ==
    {s \in Profiles :
        s.wumpus + s.pits + s.obstacles + s.traps + s.teleports <= MaxGameItems}

GameNext ==
    \/ StartLevel(GameProfiles)
    \/ PlaceWumpus \/ PlacePit \/ PlaceObstacle \/ PlaceTrap \/ PlaceTeleport
    \/ NextLoop
    \/ GenerateReturn
    \/ InitializeTeleports
    \/ CalculatePath
    \/ AnimationRuns
    \/ AnimationCompletes
    \/ StartMove

GameSpec == MenuInit /\ [][GameNext]_vars

(***************************************************************************)
(* wumpus4.py challenge mode: the first part of a frame of update() when   *)
(* the level is "Challenge Mode" and the challenge interval has elapsed.   *)
(* The rest of the frame is one of the replay actions above.               *)
(***************************************************************************)
safe_distance == 2

\* GameManager.find_empty_position: a random cell that is Empty and more
\* than safe_distance rows and columns away from the agent, or None when
\* the 100 samples all miss.
RandomFarHits(g, agent) ==
    {c \in Cells : /\ g[c] = EMPTY
                   /\ Abs(c[1] - agent[1]) > safe_distance
                   /\ Abs(c[2] - agent[2]) > safe_distance}

GameFindEmptyPosition(g, agent) == RandomFarHits(g, agent) \cup {NoPos}

\* list.remove(x): the first occurrence of x is dropped.
Remove(s, x) ==
    LET i == CHOOSE k \in 1..Len(s) : s[k] = x /\ \A j \in 1..(k - 1) : s[j] # x
    IN  SubSeq(s, 1, i - 1) \o SubSeq(s, i + 1, Len(s))

\* Variant of Recalculate: the path computed before the change is kept.
RecalculateKept(g) == path

\* "Recalculate path after changes": self.calculate_path() on the changed grid
Recalculate(g) == calculate_path(g, agent_pos, gold_pos)

ChangeTypes == {"move_wumpus", "add_pit", "add_trap"}

ApplyChallengeUpdate ==
    /\ pc = "running"
    /\ challenge_mode
    /\ challenges < MaxChallenges
    /\ challenges' = challenges + 1
    /\ \E change_type \in ChangeTypes :
          IF change_type = "move_wumpus" /\ wumpus_positions # <<>>
          THEN \E wumpus_pos \in Range(wumpus_positions) :
                  LET cleared == [grid EXCEPT ![wumpus_pos] = EMPTY]
                  IN  \E new_pos \in GameFindEmptyPosition(cleared, agent_pos) :
                         IF new_pos # NoPos
                         THEN /\ grid' = [cleared EXCEPT ![new_pos] = WUMPUS]
                              /\ wumpus_positions' =
                                     Append(Remove(wumpus_positions, wumpus_pos), new_pos)
                         ELSE /\ grid' = cleared
                              /\ wumpus_positions' = wumpus_positions
          ELSE IF change_type \in {"add_pit", "add_trap"}
          THEN /\ \E new_pos \in GameFindEmptyPosition(grid, agent_pos) :
                     IF new_pos # NoPos
                     THEN grid' = [grid EXCEPT ![new_pos] =
                                       IF change_type = "add_pit" THEN PIT ELSE TRAP]
                     ELSE grid' = grid
               /\ wumpus_positions' = wumpus_positions
          ELSE /\ grid' = grid
               /\ wumpus_positions' = wumpus_positions
    /\ path' = Recalculate(grid')
    /\ UNCHANGED <<statsVars, snakeVars, agent_pos, gold_pos, bfs_path, teleport_destinations,
                   pit_positions, obstacle_positions, trap_positions,
                   teleport_positions, settings, remaining, replayVars,
                   map_editor_selected_tile, clicks, challenge_mode, pc>>

\* The settings of the challenge level in the model: at most
\* MaxChallengeItems items.
ChallengeProfiles ==
    {s \in Profiles :
        s.wumpus + s.pits + s.obstacles + s.traps + s.teleports <= MaxChallengeItems}

ChallengeNext ==
    \/ StartChallenge(ChallengeProfiles)
    \/ PlaceWumpus \/ PlacePit \/ PlaceObstacle \/ PlaceTrap \/ PlaceTeleport
    \/ NextLoop
    \/ GenerateReturn
    \/ InitializeTeleports
    \/ CalculatePath
    \/ ApplyChallengeUpdate
    \/ AnimationRuns
    \/ AnimationCompletes
    \/ StartMove

ChallengeSpec == MenuInit /\ [][ChallengeNext]_vars

\* The game under the scheduling of the main loop: update() runs on every
\* frame, so a move is queued when the queue is empty, and an animation that
\* update() keeps calling reaches its duration.  The levels are those with at most
\* MaxChallengeItems items.
LiveNext ==
    \/ StartLevel(ChallengeProfiles)
    \/ PlaceWumpus \/ PlacePit \/ PlaceObstacle \/ PlaceTrap \/ PlaceTeleport
    \/ NextLoop
    \/ GenerateReturn
    \/ InitializeTeleports
    \/ CalculatePath
    \/ AnimationRuns
    \/ AnimationCompletes
    \/ StartMove

LiveSpec ==
    /\ MenuInit /\ [][LiveNext]_vars
    /\ WF_vars(StartMove)
    /\ WF_vars(AnimationCompletes)

(***************************************************************************)
(* wumpus4.py map editor: the palette selects a tile, a click on the grid  *)
(* places it.  The clicks of the model fall on EditorCells.                *)
(***************************************************************************)
\* self.map_editor_palette
Palette == {AGENT, GOLD, WUMPUS, PIT, EMPTY, OBSTACLE, TRAP, TELEPORT}

EditorCells == {<<0, 0>>, <<0, 1>>, <<1, 0>>, <<GRID_SIZE - 1, GRID_SIZE - 1>>}

\* GameManager.initialize_map_editor, from the main menu
InitializeMapEditor ==
    /\ pc = "menu"
    /\ grid' = BaseBoard(<<0, 0>>, <<GRID_SIZE - 1, GRID_SIZE - 1>>)
    /\ agent_pos' = <<0, 0>>
    /\ gold_pos' = <<GRID_SIZE - 1, GRID_SIZE - 1>>
    /\ teleport_destinations' = <<>>
    /\ map_editor_selected_tile' = EMPTY
    /\ pc' = "editor"
    /\ UNCHANGED <<statsVars, snakeVars, path, bfs_path, genVars, replayVars, clicks, challenge_mode,
                   challenges>>

\* A palette button is clicked.
SelectTile ==
    /\ pc = "editor"
    /\ map_editor_selected_tile' \in Palette
    /\ UNCHANGED <<statsVars, snakeVars, boardVars, path, bfs_path, teleport_destinations, genVars,
                   replayVars, clicks, challenge_mode, challenges, pc>>

\* The teleport the scan of handle_event ends with: in every row the first
\* Teleport cell other than pos without an entry in the teleport map is
\* taken and the row is left (break), the next rows are still scanned, so
\* the cell found in the last such row stays.
UnpairedIn(g, td, pos, r) ==
    {c \in 0..(GRID_SIZE - 1) :
        <<r, c>> # pos /\ g[<<r, c>>] = TELEPORT /\ <<r, c>> \notin DOMAIN td}

Unpaired(g, td, pos) ==
    LET rows == {r \in 0..(GRID_SIZE - 1) : UnpairedIn(g, td, pos, r) # {}}
    IN  IF rows = {} THEN NoPos
        ELSE LET r == CHOOSE x \in rows : \A y \in rows : y <= x
                 c == CHOOSE x \in UnpairedIn(g, td, pos, r) :
                          \A y \in UnpairedIn(g, td, pos, r) : x <= y
             IN  <<r, c>>

\* Placing AGENT or GOLD removes every other cell of that kind.
OnlyAt(g, pos, kind) ==
    [c \in Cells |-> IF c # pos /\ g[c] = kind THEN EMPTY ELSE g[c]]

\* "Handle teleport pairing": the teleport map after tile was placed on pos
\* where old_value was.
LinkTeleport(g, td, pos, old_value, tile) ==
    IF tile = TELEPORT /\ old_value # TELEPORT /\ Unpaired(g, td, pos) # NoPos
    THEN (Unpaired(g, td, pos) :> pos) @@ (pos :> Unpaired(g, td, pos)) @@ td
    ELSE td

\* A click on a cell of the grid places the selected tile.
PlaceTile ==
    /\ pc = "editor"
    /\ clicks < MaxClicks
    /\ clicks' = clicks + 1
    /\ \E pos \in EditorCells :
          LET tile == map_editor_selected_tile
              old_value == grid[pos]
              placed == [grid EXCEPT ![pos] = tile]
              g == IF tile \in {AGENT, GOLD} THEN OnlyAt(placed, pos, tile) ELSE placed
          IN  /\ grid' = g
              /\ agent_pos' = IF tile = AGENT THEN pos ELSE agent_pos
              /\ gold_pos' = IF tile = GOLD THEN pos ELSE gold_pos
              /\ teleport_destinations' =
                     LinkTeleport(g, teleport_destinations, pos, old_value, tile)
    /\ UNCHANGED <<statsVars, snakeVars, path, bfs_path, genVars, replayVars, map_editor_selected_tile,
                   challenge_mode, challenges, pc>>

\* The "Clear Map" button
ClearMap ==
    /\ pc = "editor"
    /\ grid' = BaseBoard(<<0, 0>>, <<GRID_SIZE - 1, GRID_SIZE - 1>>)
    /\ agent_pos' = <<0, 0>>
    /\ gold_pos' = <<GRID_SIZE - 1, GRID_SIZE - 1>>
    /\ teleport_destinations' = <<>>
    /\ UNCHANGED <<statsVars, snakeVars, path, bfs_path, genVars, replayVars, modeVars, pc>>

\* The "Back to Main Menu" button or the Escape key
BackToMainMenu ==
    /\ pc = "editor"
    /\ pc' = "menu"
    /\ UNCHANGED <<statsVars, snakeVars, boardVars, path, bfs_path, teleport_destinations, genVars,
                   replayVars, modeVars>>

EditorNext ==
    \/ InitializeMapEditor
    \/ SelectTile
    \/ PlaceTile
    \/ ClearMap
    \/ BackToMainMenu

EditorSpec == MenuInit /\ [][EditorNext]_vars

(***************************************************************************)
(* snake3.py: the snake game.  Positions are pixel pairs (x, y); the snake *)
(* is the list of its segments, head first.  The constant GRID_SIZE of     *)
(* snake3.py, the edge of a cell in pixels, is SNAKE_GRID_SIZE here.       *)
(***************************************************************************)
SNAKE_GRID_SIZE == 20
WIDTH == SnakeCells * SNAKE_GRID_SIZE
HEIGHT == SnakeCells * SNAKE_GRID_SIZE

\* DIRECTIONS = {'UP': (0, -1), 'DOWN': (0, 1), 'LEFT': (-1, 0), 'RIGHT': (1, 0)}
DirectionNames == <<"UP", "DOWN", "LEFT", "RIGHT">>
DIRECTIONS ==
    [d \in Range(DirectionNames) |->
        CASE d = "UP" -> <<0, -1>>
          [] d = "DOWN" -> <<0, 1>>
          [] d = "LEFT" -> <<-1, 0>>
          [] d = "RIGHT" -> <<1, 0>>]

\* 0 <= x < WIDTH and 0 <= y < HEIGHT
InBoard(p) == 0 <= p[1] /\ p[1] < WIDTH /\ 0 <= p[2] /\ p[2] < HEIGHT

\* Variant of SnakeStepTo: the step is one pixel, not one cell.
SnakeStepToUnscaled(p, d) == <<p[1] + DIRECTIONS[d][1], p[2] + DIRECTIONS[d][2]>>

\* (x + dx * GRID_SIZE, y + dy * GRID_SIZE)
SnakeStepTo(p, d) ==
    <<p[1] + DIRECTIONS[d][1] * SNAKE_GRID_SIZE, p[2] + DIRECTIONS[d][2] * SNAKE_GRID_SIZE>>

\* (random.randint(0, WIDTH // GRID_SIZE - 1) * GRID_SIZE,
\*  random.randint(0, HEIGHT // GRID_SIZE - 1) * GRID_SIZE)
RandomFood ==
    {<<i * SNAKE_GRID_SIZE, j * SNAKE_GRID_SIZE>> :
        i \in 0..(WIDTH \div SNAKE_GRID_SIZE - 1), j \in 0..(HEIGHT \div SNAKE_GRID_SIZE - 1)}

\* validate_inputs: a start position inside the window, aligned to the grid
\* by aligned_pos = (pos[0] - pos[0] % GRID_SIZE, pos[1] - pos[1] % GRID_SIZE)
AlignedStarts ==
    {<<x - (x % SNAKE_GRID_SIZE), y - (y % SNAKE_GRID_SIZE)>> : x \in 0..(WIDTH - 1), y \in 0..(HEIGHT - 1)}

\* Variant of SnakeFree: the snake's own segments are not avoided.
SnakeFreeThroughBody(p, visited, body) == p \notin visited /\ InBoard(p)

\* (nx, ny) not in visited and 0 <= nx < WIDTH and 0 <= ny < HEIGHT
\* and (nx, ny) not in self.snake
SnakeFree(p, visited, body) == p \notin visited /\ InBoard(p) /\ p \notin Range(body)

\* for d in DIRECTIONS: the neighbours of pos from the k-th direction on are
\* appended to the queue with path + [d] and marked visited.
RECURSIVE SnakeExpand(_, _, _, _, _)
SnakeExpand(item, k, st, body, food_) ==
    IF k > Len(DirectionNames) THEN st
    ELSE LET d == DirectionNames[k]
             n == SnakeStepTo(item.pos, d)
         IN  IF SnakeFree(n, st.visited, body)
             THEN SnakeExpand(item, k + 1,
                              [queue |-> Append(st.queue, [pos |-> n, path |-> Append(item.path, d)]),
                               visited |-> st.visited \cup {n}], body, food_)
             ELSE SnakeExpand(item, k + 1, st, body, food_)

\* while queue: pop the first item; return its path if it is the food
RECURSIVE SnakeBfsLoop(_, _, _)
SnakeBfsLoop(st, body, food_) ==
    IF st.queue = <<>> THEN <<>>
    ELSE LET item == Head(st.queue)
         IN  IF item.pos = food_ THEN item.path
             ELSE SnakeBfsLoop(SnakeExpand(item, 1, [queue |-> Tail(st.queue), visited |-> st.visited],
                                           body, food_), body, food_)

\* SnakeGame.bfs_search: queue = deque([(self.snake[0], [])]); visited = set()
snake_bfs_search(body, food_) ==
    SnakeBfsLoop([queue |-> <<[pos |-> body[1], path |-> <<>>]>>, visited |-> {}], body, food_)

\* The snake game is constructed (food_start is drawn) and "Start Game" is
\* clicked with a valid start position: validate_inputs, reset.
SnakeInit ==
    /\ food_start \in RandomFood
    /\ \E s \in AlignedStarts : snake = <<s>>
    /\ food = food_start
    /\ direction = "RIGHT"
    /\ running = TRUE
    /\ snake_path = <<>>
    /\ grid = NoGrid /\ agent_pos = NoPos /\ gold_pos = NoPos
    /\ path = <<>> /\ bfs_path = <<>> /\ teleport_destinations = <<>>
    /\ IdleGen /\ IdleReplay /\ IdleMode /\ IdleStats
    /\ pc = "snake"

\* SnakeGame.move_snake in direction d
move_snake(d) ==
    LET new_head == SnakeStepTo(snake[1], d)
    IN  IF new_head \in Range(snake) \/ ~InBoard(new_head)
        THEN /\ running' = FALSE
             /\ UNCHANGED <<snake, food>>
        ELSE /\ running' = running
             /\ IF new_head = food
                THEN /\ snake' = <<new_head>> \o snake
                     /\ food' \in RandomFood
                ELSE /\ snake' = <<new_head>> \o SubSeq(snake, 1, Len(snake) - 1)
                     /\ food' = food

\* One frame of run() while the game runs:
\* path = self.bfs_search(); if path: self.direction = path[0]; self.move_snake()
SnakeFrame ==
    /\ pc = "snake"
    /\ running
    /\ snake_path' = snake_bfs_search(snake, food)
    /\ direction' = IF snake_path' # <<>> THEN snake_path'[1] ELSE direction
    /\ move_snake(direction')
    /\ UNCHANGED <<boardVars, path, bfs_path, teleport_destinations, genVars, replayVars,
                   modeVars, statsVars, food_start, pc>>

\* Escape returns to the welcome screen and "Start Game" is clicked again:
\* validate_inputs, self.running = True, self.reset().  The local variable
\* path of run() keeps its value.
SnakeRestart ==
    /\ pc = "snake"
    /\ \E s \in AlignedStarts : snake' = <<s>>
    /\ food' = food_start
    /\ direction' = "RIGHT"
    /\ running' = TRUE
    /\ UNCHANGED <<boardVars, path, bfs_path, teleport_destinations, genVars, replayVars,
                   modeVars, statsVars, food_start, snake_path, pc>>

SnakeNext == SnakeFrame \/ SnakeRestart

SnakeSpec == SnakeInit /\ [][SnakeNext]_vars

\* Both breadth-first searches: the pathfinders on the enumerated boards and
\* the snake game.
BfsInit == PathInit \/ SnakeInit

\* wumpus3.py main() on its own: path = bfs_search(grid, agent_pos, gold_pos)
BfsMain ==
    /\ pc = "board"
    /\ bfs_path' = bfs_search(grid, agent_pos, gold_pos)
    /\ pc' = "bfs"
    /\ UNCHANGED <<statsVars, snakeVars, modeVars, boardVars, path, teleport_destinations,
                   genVars, replayVars>>

BfsNext == BfsMain \/ SnakeNext
BfsSpec == BfsInit /\ [][BfsNext]_vars

(***************************************************************************)
(* Reference notions the pathfinders are compared with.  They are written  *)
(* from the statements checked, not from the pathfinders' code.            *)
(***************************************************************************)
Adjacent(a, b) == Abs(a[1] - b[1]) + Abs(a[2] - b[2]) = 1

\* The cells of board g that hold none of the kinds in blocked.
Open(g, blocked) == {c \in Cells : g[c] \notin blocked}

\* Breadth-first layers: the least number of moves from the frontier's cells
\* to goal through cells of open, or -1 when there is no such walk.
RECURSIVE LayerDist(_, _, _, _, _)
LayerDist(open, frontier, seen, goal, d) ==
    IF goal \in frontier THEN d
    ELSE IF frontier = {} THEN -1
    ELSE LET next == {c \in open \ seen : \E f \in frontier : Adjacent(c, f)}
         IN  LayerDist(open, next, seen \cup next, goal, d + 1)

\* Least number of moves from start to goal entering only cells not blocked.
Distance(g, blocked, start, goal) ==
    LayerDist(Open(g, blocked), {start}, {start}, goal, 0)

\* Scored cost of entering cell c: 1 per move, plus 1 onto a Teleport cell.
StepCost(g, c) == IF g[c] = TELEPORT THEN 2 ELSE 1

RECURSIVE SumCost(_, _, _)
SumCost(g, p, i) == IF i > Len(p) THEN 0 ELSE StepCost(g, p[i]) + SumCost(g, p, i + 1)

\* Scored cost of a path: its first cell is where the agent already stands.
PathCost(g, p) == SumCost(g, p, 2)

Unreached == 4 * GRID_SIZE * GRID_SIZE

MinOf(S) == CHOOSE x \in S : \A y \in S : x <= y

\* One round of relaxation of the least scored costs d over open cells.
CostRound(g, open, d) ==
    [c \in Cells |->
        IF c \notin open THEN d[c]
        ELSE MinOf({d[c]} \cup {d[n] + StepCost(g, c) : n \in {m \in Cells : Adjacent(m, c)}})]

RECURSIVE CostFix(_, _, _)
CostFix(g, open, d) ==
    LET e == CostRound(g, open, d) IN IF e = d THEN d ELSE CostFix(g, open, e)

\* Least scored cost of a walk from start to goal over non-Obstacle,
\* non-Wumpus cells (Unreached or more when there is none).
MinCost(g, start, goal) ==
    CostFix(g, Open(g, {OBSTACLE, WUMPUS}) \cup {start},
            [c \in Cells |-> IF c = start THEN 0 ELSE Unreached])[goal]

\* p starts at start, ends at goal, moves between 4-adjacent cells of the board
WellFormed(p, start, goal) ==
    /\ p[1] = start
    /\ p[Len(p)] = goal
    /\ \A i \in 1..Len(p) : p[i] \in Cells
    /\ \A i \in 1..(Len(p) - 1) : Adjacent(p[i], p[i + 1])

\* The kinds of the cells of path p after its first cell.
KindsEntered(g, p) == {g[p[i]] : i \in 2..Len(p)}

HasKind(g, k) == \E c \in Cells : g[c] = k

(***************************************************************************)
(* Claims about the pathfinders, checked under PathSpec.                   *)
(***************************************************************************)
\* The cells bfs_search may enter are those holding neither Pit nor Wumpus.
BfsDistance == Distance(grid, {PIT, WUMPUS}, agent_pos, gold_pos)

\* The cells calculate_path may enter are those holding neither Obstacle nor Wumpus.
AStarDistance == Distance(grid, {OBSTACLE, WUMPUS}, agent_pos, gold_pos)

C2_AStarOptimal ==
    (pc # "board" /\ path # <<>>) =>
        PathCost(grid, path) <= MinCost(grid, agent_pos, gold_pos)

(* C3 as stated: on a board without Teleport cells the paths of            *)
(* calculate_path and bfs_search have the same length, and one is empty    *)
(* exactly when the other is.                                              *)
C3_Original ==
    (pc = "both" /\ ~HasKind(grid, TELEPORT)) => Len(path) = Len(bfs_path)

(* C3 amended: on a board without Teleport, Pit and Obstacle cells the     *)
(* paths of calculate_path and bfs_search have the same length, and one is *)
(* empty exactly when the other is.                                        *)
C3_SameLength ==
    (pc = "both" /\ ~HasKind(grid, TELEPORT) /\ ~HasKind(grid, PIT)
                 /\ ~HasKind(grid, OBSTACLE))
        => Len(path) = Len(bfs_path)

\* Both pathfinders went around a Wumpus and returned paths of one length.
C3_Witness ==
    /\ pc = "both"
    /\ ~HasKind(grid, TELEPORT) /\ ~HasKind(grid, PIT) /\ ~HasKind(grid, OBSTACLE)
    /\ HasKind(grid, WUMPUS)
    /\ Len(path) - 1 > heuristic(agent_pos, gold_pos)
    /\ Len(path) = Len(bfs_path)

C5_WellFormed ==
    /\ (pc # "board" /\ path # <<>>) => WellFormed(path, agent_pos, gold_pos)
    /\ (pc = "both" /\ bfs_path # <<>>) => WellFormed(bfs_path, agent_pos, gold_pos)

\* Both pathfinders returned a path of several moves with a turn forced by a tile.
C5_Witness ==
    /\ pc = "both"
    /\ Len(path) > 3 /\ Len(bfs_path) > 3
    /\ Len(path) - 1 > heuristic(agent_pos, gold_pos)

\* The in-grid 4-neighbours of pos.
Around(pos) ==
    {<<pos[1] - 1, pos[2]>>, <<pos[1] + 1, pos[2]>>,
     <<pos[1], pos[2] - 1>>, <<pos[1], pos[2] + 1>>} \cap Cells

\* The neighbours calculate_path / bfs_search may step onto from pos.
AStarSteps(g, pos) ==
    LET s == get_neighbors(g, pos) IN {s[i] : i \in 1..Len(s)}
BfsSteps(g, pos) ==
    LET s == BfsExpand(g, pos, <<>>) IN {s[i][1] : i \in 1..Len(s)}

\* From every cell, the neighbours calculate_path may step onto are those not
\* holding a kind of blockedA, and those of bfs_search those not of blockedB.
StepsAre(g, blockedA, blockedB) ==
    \A pos \in Cells :
        LET a == AStarSteps(g, pos)
            b == BfsSteps(g, pos)
        IN  \A n \in Around(pos) :
                /\ n \in a <=> g[n] \notin blockedA
                /\ n \in b <=> g[n] \notin blockedB

(* C7 as stated: both pathfinders exclude exactly the Obstacle and Wumpus  *)
(* neighbours, and no Obstacle or Wumpus cell is inside a returned path.   *)
C7_Original ==
    /\ StepsAre(grid, {OBSTACLE, WUMPUS}, {OBSTACLE, WUMPUS})
    /\ pc # "board" => KindsEntered(grid, path) \cap {OBSTACLE, WUMPUS} = {}
    /\ pc = "both" => KindsEntered(grid, bfs_path) \cap {OBSTACLE, WUMPUS} = {}

(* C7 amended: calculate_path excludes exactly the Obstacle and Wumpus     *)
(* neighbours (a Pit, Trap, Teleport, Trail or Empty cell is never         *)
(* excluded) and no Obstacle or Wumpus cell is inside a path it returns;   *)
(* bfs_search excludes exactly the Pit and Wumpus neighbours and no Pit or *)
(* Wumpus cell is inside a path it returns.                                *)
C7_Traversable ==
    /\ StepsAre(grid, {OBSTACLE, WUMPUS}, {PIT, WUMPUS})
    /\ pc # "board" => KindsEntered(grid, path) \cap {OBSTACLE, WUMPUS} = {}
    /\ pc = "both" => KindsEntered(grid, bfs_path) \cap {PIT, WUMPUS} = {}

\* calculate_path walked over a Pit and bfs_search over an Obstacle.
C7_Witness ==
    /\ pc = "both"
    /\ PIT \in KindsEntered(grid, path)
    /\ OBSTACLE \in KindsEntered(grid, bfs_path)

(***************************************************************************)
(* Claims about level generation and teleport pairing, checked under       *)
(* GenSpec.                                                                *)
(***************************************************************************)
CountKind(g, k) == Cardinality({c \in Cells : g[c] = k})

\* The Teleport cells of the grid that have no entry in the teleport map.
UnpairedTeleports == {c \in Cells : grid[c] = TELEPORT /\ c \notin DOMAIN teleport_destinations}

(* C8: after generate_grid and initialize_teleports every key of the       *)
(* teleport map maps to a partner other than itself that maps back to the  *)
(* key, and at most one Teleport cell of the grid has no entry, one only   *)
(* when the number of Teleport cells is odd.                               *)
C8_TeleportPairs ==
    pc = "paired" =>
        /\ \A k \in DOMAIN teleport_destinations :
              /\ teleport_destinations[k] # k
              /\ teleport_destinations[k] \in DOMAIN teleport_destinations
              /\ teleport_destinations[teleport_destinations[k]] = k
        /\ Cardinality(UnpairedTeleports) <= 1
        /\ Cardinality(UnpairedTeleports) = 1 => CountKind(grid, TELEPORT) % 2 = 1

\* Three teleports were placed: two are linked, one is left without entry.
C8_Witness ==
    /\ pc = "paired"
    /\ CountKind(grid, TELEPORT) = 3
    /\ Cardinality(DOMAIN teleport_destinations) = 2
    /\ Cardinality(UnpairedTeleports) = 1

GenStages == {"wumpus", "pits", "obstacles", "traps", "teleports"}

\* A step of generate_grid leaves every occupied cell as it is.
KeepsOccupied == \A c \in Cells : grid[c] # EMPTY => grid'[c] = grid[c]

\* No kind is on more cells than the level's settings request.
WithinSettings ==
    /\ CountKind(grid, WUMPUS) <= settings.wumpus
    /\ CountKind(grid, PIT) <= settings.pits
    /\ CountKind(grid, OBSTACLE) <= settings.obstacles
    /\ CountKind(grid, TRAP) <= settings.traps
    /\ CountKind(grid, TELEPORT) <= settings.teleports

(* C9: for every level settings and every sequence of random samples, no   *)
(* step of generate_grid overwrites an occupied cell (agent, gold and the  *)
(* items placed before keep their kind), and the numbers of Wumpus, Pit,   *)
(* Obstacle, Trap and Teleport cells never exceed the requested counts.    *)
C9_NoOverwrite ==
    /\ [][(pc \in GenStages) => KeepsOccupied]_vars
    /\ [](pc \in GenStages \cup {"generated"} => WithinSettings)

\* generate_grid returned a grid holding items of two kinds, as many of each
\* as requested, beside agent and gold.
C9_Witness ==
    /\ pc = "generated"
    /\ grid[LevelAgent] = AGENT /\ grid[LevelGold] = GOLD
    /\ settings.wumpus = 2 /\ CountKind(grid, WUMPUS) = 2
    /\ settings.teleports = 1 /\ CountKind(grid, TELEPORT) = 1

(***************************************************************************)
(* Claims about the replay of a generated level (GameSpec).                *)
(***************************************************************************)
\* A queued or running agent animation that carries the agent from a paired
\* teleport cell to that cell's partner.
IsHop(m) ==
    /\ m.entity_type = AGENT
    /\ m.start_pos \in DOMAIN teleport_destinations
    /\ m.end_pos = teleport_destinations[m.start_pos]

\* The agent stands on a teleport cell and its hop to the partner is not done.
HopPending ==
    \E m \in {animation} \cup Range(animations) :
        IsHop(m) /\ m.start_pos = agent_pos

\* This frame completes the hop from a to its partner.
HopArrives(a) ==
    /\ animations # <<>>
    /\ IsHop(CurrentAnimation)
    /\ CurrentAnimation.start_pos = a
    /\ agent_pos = a
    /\ agent_pos' = teleport_destinations[a]

AgentMoves(q) == SelectSeq(q, LAMBDA m : m.entity_type = AGENT)

(* C10: when the replay driver moves the agent onto a Teleport cell a that *)
(* is paired with b, the next agent move it performs is the hop from a to  *)
(* b; no further path element is consumed between the arrival at a and the *)
(* arrival at b; and on arriving at b the driver does not move the agent   *)
(* back to a, so that the replay goes on from b.                           *)
C10_TeleportHop ==
    [][\A a \in DOMAIN teleport_destinations :
          /\ (agent_pos # a /\ agent_pos' = a /\ grid[a] = TELEPORT)
                => /\ AgentMoves(animations') # <<>>
                   /\ Head(AgentMoves(animations')) = Anim(a, teleport_destinations[a], AGENT)
          /\ HopPending => path' = path
          /\ HopArrives(a)
                => \A m \in Range(animations') :
                       ~(m.entity_type = AGENT /\ m.end_pos = a)
      ]_vars

(* C11: Won and Dead are terminal states of the replay: once the agent has *)
(* collected the gold or died, no further frame changes the agent's        *)
(* position, the grid or the remaining path.                               *)
C11_Terminal ==
    [][(game_over \/ game_won) => UNCHANGED <<agent_pos, grid, path>>]_vars

(* C12: each replay step along the path consumes exactly one path element  *)
(* (the head of the path, queueing the move from it to the element after   *)
(* it); when a move completes, the cell the agent vacated holds Trail, the  *)
(* cell it arrived on holds Agent, and agent_pos is that arrival cell, the  *)
(* end of the completed animation.                                         *)
C12_ReplayStep ==
    [][/\ (pc = "running" /\ path' # path)
            => /\ path # <<>>
               /\ path' = Tail(path)
               /\ animations' = <<Anim(path[1], path[2], AGENT)>>
       /\ (pc = "running" /\ agent_pos' # agent_pos)
            => /\ agent_pos' = CurrentAnimation.end_pos
               /\ grid' = [[grid EXCEPT ![agent_pos] = TRAIL]
                                 EXCEPT ![agent_pos'] = AGENT]
      ]_vars

C12_Witness ==
    /\ pc = "running"
    /\ Len(path) >= 2
    /\ agent_pos # LevelAgent
    /\ grid[LevelAgent] = TRAIL
    /\ grid[agent_pos] = AGENT
    /\ path[1] = agent_pos

(***************************************************************************)
(* Claims about the grid and the teleport map in the map editor            *)
(* (EditorSpec) and in the replay.                                         *)
(***************************************************************************)
(* C13: in every reachable state in which a grid exists (after generation, *)
(* after any sequence of map-editor tile placements, after any number of   *)
(* replay steps) the grid holds exactly one Agent cell and exactly one     *)
(* Goal cell.                                                              *)
C13_OneAgentOneGoal ==
    grid # NoGrid => CountKind(grid, AGENT) = 1 /\ CountKind(grid, GOLD) = 1

(***************************************************************************)
(* The 5x5 scenario (PathSpec).                                            *)
(***************************************************************************)
\* A 5x5 grid with no obstacles, agent at (0,0), goal at (4,4).
Scenario5x5 ==
    /\ GRID_SIZE = 5
    /\ agent_pos = <<0, 0>>
    /\ gold_pos = <<4, 4>>
    /\ grid = BaseBoard(agent_pos, gold_pos)
    /\ pc = "both"

\* The scenario as worded: a path of 8 cells counting both endpoints.
C14_Original ==
    Scenario5x5 => Len(bfs_path) = 8 /\ Len(path) = Len(bfs_path)

(* C14: on a 5x5 grid with no obstacles, agent at (0,0) and goal at (4,4), *)
(* bfs_search returns a path of exactly 9 cells counting both endpoints    *)
(* (8 moves), and calculate_path returns a path of the same length.        *)
C14_NineCells ==
    Scenario5x5 => Len(bfs_path) = 9 /\ Len(path) = Len(bfs_path)

C14_Witness ==
    Scenario5x5 /\ Len(bfs_path) = 9 /\ Len(path) = 9

(***************************************************************************)
(* The order in which calculate_path expands the frontier (PathSpec).      *)
(***************************************************************************)
\* The current f = g + h of the i-th frontier entry: f_score is rewritten
\* whenever g_score is, the number stored in the entry is not.
CurrentF(st, i) == st.f_score[st.open_set[i][2]]

\* The frontier entry with the lowest current f, the earliest inserted among
\* equals (open_set is kept in insertion order).
LowestFirst(st) ==
    CHOOSE i \in 1..Len(st.open_set) :
        /\ \A j \in 1..Len(st.open_set) : CurrentF(st, i) <= CurrentF(st, j)
        /\ \A j \in 1..(i - 1) : CurrentF(st, j) > CurrentF(st, i)

\* Every iteration of the main loop from search state st on expands the
\* entry LowestFirst names.
RECURSIVE FrontierOrdered(_, _, _)
FrontierOrdered(g, gold, st) ==
    IF st.open_set = <<>> THEN TRUE
    ELSE LET current == st.open_set[MinIndex(st.open_set)][2]
             rest == SelectSeq(st.open_set, LAMBDA x : x[2] # current)
         IN  /\ MinIndex(st.open_set) = LowestFirst(st)
             /\ \/ current = gold
                \/ FrontierOrdered(g, gold,
                       Relax(g, gold, current, get_neighbors(g, current),
                             [st EXCEPT !.open_set = rest]))

(* C15: in every iteration of the main loop of calculate_path the node     *)
(* expanded is one whose current f = g + h is the lowest in the frontier,  *)
(* the earliest inserted among those of equal lowest f, also after the     *)
(* g_score of a waiting frontier node was improved.                        *)
C15_FrontierOrder ==
    pc = "astar" => FrontierOrdered(grid, gold_pos, AStarInit(agent_pos, gold_pos))

(***************************************************************************)
(* Claims about challenge mode (ChallengeSpec).                            *)
(***************************************************************************)
\* The step is a challenge-mode change of the grid.
ChallengeStep == challenges' = challenges + 1

\* p is a path for board g: from the agent to the gold between adjacent
\* cells, none of them an Obstacle or a Wumpus.
ReflectsGrid(p, g, agent, gold) ==
    p # <<>> => /\ WellFormed(p, agent, gold)
                /\ \A i \in 1..Len(p) : g[p[i]] \notin {OBSTACLE, WUMPUS}

(* C16: after every challenge-mode grid mutation (wumpus moved, pit added, *)
(* trap added) the stored path is the one computed for the new grid: it is *)
(* either empty or starts at the agent's current position, ends at the     *)
(* gold and contains no cell that now holds an Obstacle or a Wumpus.        *)
C16_PathRecalculated ==
    [][ChallengeStep => ReflectsGrid(path', grid', agent_pos', gold_pos')]_vars

\* A challenge added a pit while the agent was under way on a move: the
\* stored path starts again at the cell the agent still stands on.
C16_Witness ==
    /\ pc = "running"
    /\ challenges = 1
    /\ HasKind(grid, PIT)
    /\ agent_pos # LevelAgent
    /\ animation.entity_type = AGENT
    /\ animation.start_pos = agent_pos
    /\ Len(path) > 1
    /\ path[1] = agent_pos

(***************************************************************************)
(* Death in the replay (GameSpec).                                         *)
(***************************************************************************)
\* An agent move completes in this step.
Arrival == pc = "running" /\ agent_pos' # agent_pos

(* C17: the replay sets game_over exactly when an agent move arrives on a  *)
(* cell that holds a Pit or a Wumpus at arrival time; an arrival on any    *)
(* other kind of cell leaves game_over as it was; and a Pit that is the    *)
(* next element of the path is not skipped: the move onto it is queued.    *)
C17_DeathOnArrival ==
    [][/\ (game_over' # game_over) => (Arrival /\ ~game_over /\ game_over')
       /\ Arrival => (game_over' = (game_over \/ grid[agent_pos'] \in {PIT, WUMPUS}))
       /\ (pc = "running" /\ path' # path /\ Len(path) > 1 /\ grid[path[2]] = PIT)
              => animations' = <<Anim(path[1], path[2], AGENT)>>
      ]_vars

\* The agent walked onto a Pit of its path and died there.
C17_Witness ==
    /\ pc = "running"
    /\ game_over /\ ~game_won
    /\ settings.wumpus = 0 /\ settings.pits > 0
    /\ grid[agent_pos] = AGENT
    /\ agent_pos \notin {LevelAgent, LevelGold}

(* C18: after any sequence of map-editor tile placements the teleport      *)
(* relation is symmetric and injective: whenever a maps to b then b maps   *)
(* to a, no cell maps to itself, no key maps to a missing partner, and no  *)
(* two distinct cells map to the same partner.                             *)
C18_TeleportRelation ==
    \A a \in DOMAIN teleport_destinations :
        LET b == teleport_destinations[a]
        IN  /\ b # NoPos
            /\ b # a
            /\ b \in DOMAIN teleport_destinations
            /\ teleport_destinations[b] = a
            /\ \A c \in DOMAIN teleport_destinations :
                   teleport_destinations[c] = b => c = a

(* C19: in every reachable state, also after the map editor has            *)
(* overwritten a Teleport tile, every key of the teleport map is a cell    *)
(* that holds Teleport in the grid.                                        *)
C19_KeysAreTeleports ==
    \A k \in DOMAIN teleport_destinations : grid[k] = TELEPORT

(***************************************************************************)
(* The safety zone around the agent's start (GenSpec).                     *)
(***************************************************************************)
\* Chebyshev distance of two cells.
Chebyshev(a, b) ==
    IF Abs(a[1] - b[1]) > Abs(a[2] - b[2]) THEN Abs(a[1] - b[1]) ELSE Abs(a[2] - b[2])

(* C20: no Wumpus, Pit, Obstacle, Trap or Teleport placed by generate_grid *)
(* lies within Chebyshev distance 1 of the agent's start, for every        *)
(* profile and every sequence of random samples, also when the 100 samples *)
(* are used up and the linear scan chooses the cell.                       *)
C20_SafetyZone ==
    pc \in GenStages \cup {"generated", "paired"} =>
        \A c \in Cells :
            grid[c] \in {WUMPUS, PIT, OBSTACLE, TRAP, TELEPORT}
                => Chebyshev(c, LevelAgent) > 1

(***************************************************************************)
(* Claims about Level.find_empty_position on nearly full grids (FillSpec). *)
(***************************************************************************)
\* The cells find_empty_position may return: Empty and not excluded.
Candidates == {c \in Cells : grid[c] = EMPTY /\ c \notin ExcludePositions}

\* The scan returns the first candidate in row-major order, and None only
\* when there is no candidate; no other result of find_empty_position is None.
ScanFirst ==
    LET r == FirstEmpty(grid, ExcludePositions)
    IN  /\ (r = NoPos) <=> (Candidates = {})
        /\ r # NoPos => r \in Candidates /\ \A d \in Candidates : ~RowMajorBefore(d, r)
        /\ NoPos \in find_empty_position(grid, ExcludePositions, LevelAgent)
               => Candidates = {}

\* One iteration of a placement loop places an item exactly when a cell is free.
PlacesIfFree ==
    IF Candidates = {}
    THEN grid' = grid
    ELSE \E c \in Candidates : grid' = [grid EXCEPT ![c] = grid'[c]] /\ grid'[c] # EMPTY

Min(a, b) == IF a < b THEN a ELSE b

\* Each category has placed min(requested, free cells available) items; the
\* cells free before the trap loop are those now holding Trap, Teleport or Empty.
PlacedMin ==
    LET traps == CountKind(grid, TRAP)
        teleports == CountKind(grid, TELEPORT)
        empty == CountKind(grid, EMPTY)
    IN  /\ traps = Min(settings.traps, traps + teleports + empty)
        /\ teleports = Min(settings.teleports, teleports + empty)

(* C21: find_empty_position returns the first unoccupied, unexcluded cell  *)
(* in row-major order when the samples are used up, None only when the     *)
(* grid has no Empty cell outside the exclusion list, and so each category *)
(* of generate_grid places exactly min(requested, free cells available)    *)
(* items.                                                                  *)
C21_FindEmpty ==
    /\ [](pc \in GenStages => ScanFirst)
    /\ [][(pc \in GenStages /\ remaining' = remaining - 1) => PlacesIfFree]_vars
    /\ [](pc = "generated" => PlacedMin)

\* The grid was saturated before the requests were served: a trap was placed
\* on the last free cell, a second trap and a teleport found none.
C21_Witness ==
    /\ pc = "generated"
    /\ CountKind(grid, EMPTY) = 0
    /\ settings.traps = 2 /\ CountKind(grid, TRAP) = 1
    /\ settings.teleports = 1 /\ CountKind(grid, TELEPORT) = 0

(***************************************************************************)
(* C25: a game that is won is counted once: from the winning move on,      *)
(* levels_completed of the level is one more than before the game and one  *)
(* history record has been appended, whatever animations complete after    *)
(* the winning move.  Every game of the model starts from empty stats.     *)
(***************************************************************************)
C25_CountedOnce ==
    game_won => (levels_completed = 1 /\ Len(history) = 1)

(***************************************************************************)
(* The searches when start and goal coincide (BfsSpec).                    *)
(***************************************************************************)
\* C22 as stated: when start equals goal, the wumpus bfs_search returns the
\* empty path, and so does the snake's bfs_search.
C22_Original ==
    /\ [](pc = "bfs" /\ agent_pos = gold_pos => bfs_path = <<>>)
    /\ [][(SnakeFrame /\ snake[1] = food) => snake_path' = <<>>]_vars

(* C22: when start equals goal, the wumpus bfs_search returns the one-cell *)
(* path holding the start, and the snake's bfs_search returns the empty    *)
(* list of directions.                                                     *)
C22_StartIsGoal ==
    /\ [](pc = "bfs" /\ agent_pos = gold_pos => bfs_path = <<agent_pos>>)
    /\ [][(SnakeFrame /\ snake[1] = food) => snake_path' = <<>>]_vars

C22_Witness ==
    pc = "bfs" /\ agent_pos = gold_pos /\ bfs_path = <<agent_pos>>

(***************************************************************************)
(* The teleport penalty of calculate_path (PathSpec).                      *)
(***************************************************************************)
\* Least number of moves from the agent to the gold entering no Teleport
\* cell (and no Obstacle or Wumpus), or -1.
TeleportFreeDistance ==
    Distance(grid, {OBSTACLE, WUMPUS, TELEPORT}, agent_pos, gold_pos)

\* Least number of moves of a route from the agent to the gold that enters
\* Teleport cell t.
ThroughTeleport(t) ==
    LET a == Distance(grid, {OBSTACLE, WUMPUS}, agent_pos, t)
        b == Distance(grid, {OBSTACLE, WUMPUS}, t, gold_pos)
    IN  IF a = -1 \/ b = -1 THEN -1 ELSE a + b

\* The least of these over the Teleport cells the returned path enters.
TeleportRouteDistance ==
    MinOf({ThroughTeleport(path[i]) : i \in {j \in 2..Len(path) : grid[path[j]] = TELEPORT}})

(* C23: the path returned by calculate_path enters a Teleport cell only if *)
(* the shortest route that avoids all Teleport cells is strictly longer    *)
(* than the route through the teleport plus 1, the teleport penalty.       *)
C23_TeleportOnlyIfShorter ==
    (pc \in {"astar", "both"} /\ TELEPORT \in KindsEntered(grid, path))
        => (TeleportFreeDistance = -1 \/ TeleportFreeDistance > TeleportRouteDistance + 1)

C23_Witness ==
    /\ pc = "astar" /\ TELEPORT \in KindsEntered(grid, path)
    /\ TeleportFreeDistance # -1
    /\ TeleportFreeDistance = TeleportRouteDistance + 2

(***************************************************************************)
(* The agent's moves while challenge updates recompute the path            *)
(* (ChallengeSpec).                                                        *)
(***************************************************************************)
\* b is the destination paired with the Teleport cell a.
TeleportJump(a, b) ==
    a \in DOMAIN teleport_destinations /\ teleport_destinations[a] = b

(* C24: in a running game every change of the agent's position moves it to *)
(* a 4-adjacent cell, or from a Teleport cell to its paired destination,   *)
(* whatever challenge updates happen while a move is queued or in progress.*)
C24_AdjacentMoves ==
    [][(pc = "running" /\ agent_pos' # agent_pos)
          => (Adjacent(agent_pos, agent_pos') \/ TeleportJump(agent_pos, agent_pos'))]_vars

(***************************************************************************)
(* The Wumpus list under challenge updates (ChallengeSpec).                *)
(***************************************************************************)
\* wumpus_positions names exactly the cells of the grid that hold a Wumpus.
WumpusListExact(g, positions) ==
    /\ Range(positions) = {c \in Cells : g[c] = WUMPUS}
    /\ Len(positions) = Cardinality(Range(positions))

(* C26: a challenge update keeps wumpus_positions naming exactly the       *)
(* Wumpus cells of the grid, as many as were generated, and clears no cell *)
(* that holds something other than a Wumpus.                               *)
C26_WumpusListKept ==
    [][(challenges' = challenges + 1 /\ WumpusListExact(grid, wumpus_positions))
          => /\ WumpusListExact(grid', wumpus_positions')
             /\ Len(wumpus_positions') = settings.wumpus
             /\ \A c \in Cells : (grid[c] # WUMPUS /\ grid[c] # EMPTY) => grid'[c] = grid[c]]_vars

(***************************************************************************)
(* The replay comes to an end (LiveSpec).                                  *)
(***************************************************************************)
(* C27: in a running game whose computed path is not empty, with every     *)
(* animation that is run completing, the replay eventually reaches Won or  *)
(* Dead: it does not stall and does not go round between teleports for     *)
(* ever.                                                                   *)
C27_ReachesEnd ==
    (pc = "running" /\ path # <<>>) ~> (game_won \/ game_over)

(***************************************************************************)
(* The snake game (SnakeSpec).                                             *)
(***************************************************************************)
(* C28: whenever bfs_search returns a non-empty list of directions, the    *)
(* move_snake call that follows, in the first direction of the list, does  *)
(* not end the game: the new head is inside the board and on no segment of *)
(* the snake, and running stays True.                                      *)
C28_FirstStepSafe ==
    [][(SnakeFrame /\ snake_path' # <<>>)
          => /\ running'
             /\ direction' = snake_path'[1]
             /\ InBoard(SnakeStepTo(snake[1], direction'))
             /\ SnakeStepTo(snake[1], direction') \notin Range(snake)
             /\ snake'[1] = SnakeStepTo(snake[1], direction')]_vars

C28_Witness ==
    /\ pc = "snake" /\ running /\ snake_path # <<>>
    /\ Len(snake) > 2
    /\ snake[1] = SnakeStepTo(snake[2], snake_path[1])

\* Two positions one grid cell apart, horizontally or vertically.
OneCellApart(a, b) == Abs(a[1] - b[1]) + Abs(a[2] - b[2]) = SNAKE_GRID_SIZE

GridAligned(p) == p[1] % SNAKE_GRID_SIZE = 0 /\ p[2] % SNAKE_GRID_SIZE = 0

SnakeShape ==
    /\ snake # <<>>
    /\ \A i, j \in 1..Len(snake) : i # j => snake[i] # snake[j]
    /\ \A i \in 1..Len(snake) : InBoard(snake[i]) /\ GridAligned(snake[i])
    /\ \A i \in 1..(Len(snake) - 1) : OneCellApart(snake[i], snake[i + 1])

(* C29: after any sequence of move_snake calls from reset the segments of  *)
(* the snake are pairwise distinct, inside the board and grid-aligned, and *)
(* consecutive segments are one grid cell apart; a move that ends the game *)
(* leaves the snake and the food as they were.                             *)
C29_SnakeShape ==
    /\ [](pc = "snake" => SnakeShape)
    /\ [][(SnakeFrame /\ ~running') => (snake' = snake /\ food' = food)]_vars

C29_Witness ==
    pc = "snake" /\ ~running /\ Len(snake) >= 3 /\ SnakeShape

(* C30: in every state of a running snake game the food cell is not        *)
(* occupied by a segment of the snake, for the food position after reset   *)
(* and for every food position chosen after the snake eats.                *)
C30_FoodOffSnake ==
    (pc = "snake" /\ running) => food \notin Range(snake)

=============================================================================
